---- MODULE Spec2Model ----
(***************************************************************************)
(* Model of the customer-order ETL pipeline (customer_order_etl/main.py).  *)
(*                                                                         *)
(* A table (pandas DataFrame) is a sequence of rows; a row is a record of  *)
(* its columns.  The raw order_date is the text "YYYY-MM-DD", held as the  *)
(* tuple <<y, m, d>>; pd.to_datetime turns it into a day ordinal (the      *)
(* midnight timestamp, in days since 1970-01-01) and strftime('%Y-%m')     *)
(* turns an ordinal back into <<y, m>>.  A missing numeric cell is NaN, a  *)
(* missing text cell is NA.  The process runs main() stage by stage; pc is *)
(* the position in main.                                                   *)
(***************************************************************************)
EXTENDS Integers, Sequences, FiniteSets, TLC

VARIABLES
    pc,              \* position of the process in main()
    file_exists,     \* whether dataset.csv exists
    file_rows,       \* the rows of dataset.csv
    df_raw, df_validated, df_transformed, df_final, df_incremental,
    last_run,        \* main's last_run / incremental_loading's last_load_date
    db, csv, parquet,\* rows held by the three sinks (<<>>: absent or empty)
    written,         \* sinks written by the current process
    trace,           \* stages called by the current process, in call order
    log,             \* ERROR / CRITICAL / completion records of the process
    exc,             \* exception that ended the process ("none" while alive)
    runs,            \* number of processes started so far
    db_before        \* rows of the SQLite table when the process started

vars == <<pc, file_exists, file_rows, df_raw, df_validated, df_transformed,
          df_final, df_incremental, last_run, db, csv, parquet, written,
          trace, log, exc, runs, db_before>>

-----------------------------------------------------------------------------
(* Bounds of the model *)

MaxRows == 2        \* rows of dataset.csv, single-run specification
MaxRowsIncr == 2    \* rows of the table handed to incremental_loading
MaxRowsRuns == 1    \* rows of dataset.csv, repeated-run specification
MaxRuns == 2        \* processes started, repeated-run specification

-----------------------------------------------------------------------------
(* Cells *)

NaN == -9999        \* missing numeric cell (never a legal quantity/price)
NA == "<NA>"        \* missing text cell

\* Series.str.lower() over the status texts of the model
StrLower(s) ==
    CASE s = "completed" -> "completed"
      [] s = "Completed" -> "completed"
      [] s = "Pending"   -> "pending"
      [] s = "pending"   -> "pending"
      [] s = "CANCELLED" -> "cancelled"
      [] s = "cancelled" -> "cancelled"
      [] OTHER           -> s

valid_status == {"completed", "pending", "cancelled"}

\* pd.to_datetime on "YYYY-MM-DD": the day ordinal of the civil date
to_datetime(ymd) ==
    LET y   == IF ymd[2] <= 2 THEN ymd[1] - 1 ELSE ymd[1]
        era == y \div 400
        yoe == y - era * 400
        mp  == IF ymd[2] > 2 THEN ymd[2] - 3 ELSE ymd[2] + 9
        doy == (153 * mp + 2) \div 5 + ymd[3] - 1
        doe == yoe * 365 + yoe \div 4 - yoe \div 100 + doy
    IN  era * 146097 + doe - 719468

\* Series.dt.strftime('%Y-%m'): year and month of a day ordinal
strftime_Ym(ts) ==
    LET z   == ts + 719468
        era == z \div 146097
        doe == z - era * 146097
        yoe == (doe - doe \div 1460 + doe \div 36524 - doe \div 146096) \div 365
        doy == doe - (365 * yoe + yoe \div 4 - yoe \div 100)
        mp  == (5 * doy + 2) \div 153
        m   == IF mp < 10 THEN mp + 3 ELSE mp - 9
        y   == yoe + era * 400
    IN  <<IF m <= 2 THEN y + 1 ELSE y, m>>

\* pandas arithmetic: NaN propagates
Mul(a, b) == IF a = NaN \/ b = NaN THEN NaN ELSE a * b

\* pandas comparisons: any comparison with NaN is False
Lt0(v) == v # NaN /\ v < 0
Ge0(v) == v # NaN /\ v >= 0

-----------------------------------------------------------------------------
(* Tables *)

\* boolean indexing df[mask]: the rows whose mask entry is True, in order
BoolIndex(t, mask) ==
    LET F[i \in 0..Len(t)] ==
            IF i = 0 THEN <<>>
            ELSE IF mask[i] THEN Append(F[i - 1], t[i]) ELSE F[i - 1]
    IN  F[Len(t)]

Rows(t) == {t[i] : i \in 1..Len(t)}

\* Tables of at most n rows over a set of rows
Tables(R, n) == UNION {[1..k -> R] : k \in 0..n}

-----------------------------------------------------------------------------
(* validate_data *)

\* DataFrame.isnull() on one row: some cell is missing
IsNullRow(r) ==
    \/ r.order_id = NaN \/ r.quantity = NaN \/ r.price_usd = NaN
    \/ r.order_date = <<>>
    \/ r.customer_id = NA \/ r.product_id = NA
    \/ r.status = NA \/ r.delivery_address = NA

\* lines 49-57: drop the rows with any missing value
check_missing(t) ==
    IF \E i \in 1..Len(t) : IsNullRow(t[i])
    THEN BoolIndex(t, [i \in 1..Len(t) |-> ~IsNullRow(t[i])])
    ELSE t

\* DataFrame.duplicated(subset=['order_id']): an earlier row has the same id
duplicated(t, i) == \E j \in 1..(i - 1) : t[j].order_id = t[i].order_id

\* faulty variant: the duplicate check left out
check_duplicates_off(t) == t

\* lines 59-64: drop_duplicates(subset=['order_id'], keep='first')
check_duplicates(t) ==
    IF \E i \in 1..Len(t) : duplicated(t, i)
    THEN BoolIndex(t, [i \in 1..Len(t) |-> ~duplicated(t, i)])
    ELSE t

\* faulty variant: the quantity check filters on the price column
check_negative_quantity_wrongcol(t) ==
    IF Len(BoolIndex(t, [i \in 1..Len(t) |-> Lt0(t[i].price_usd)])) > 0
    THEN BoolIndex(t, [i \in 1..Len(t) |-> Ge0(t[i].price_usd)])
    ELSE t

\* lines 66-70
check_negative_quantity(t) ==
    IF Len(BoolIndex(t, [i \in 1..Len(t) |-> Lt0(t[i].quantity)])) > 0
    THEN BoolIndex(t, [i \in 1..Len(t) |-> Ge0(t[i].quantity)])
    ELSE t

\* lines 72-76
check_negative_price(t) ==
    IF Len(BoolIndex(t, [i \in 1..Len(t) |-> Lt0(t[i].price_usd)])) > 0
    THEN BoolIndex(t, [i \in 1..Len(t) |-> Ge0(t[i].price_usd)])
    ELSE t

\* line 80: ~df['status'].str.lower().isin(valid_status)
invalid_status(r) == StrLower(r.status) \notin valid_status

\* lines 78-84
check_status(t) ==
    IF \E i \in 1..Len(t) : invalid_status(t[i])
    THEN BoolIndex(t, [i \in 1..Len(t) |-> ~invalid_status(t[i])])
    ELSE t

validate_data(df) ==
    check_status(
      check_negative_price(
        check_negative_quantity(
          check_duplicates(
            check_missing(df)))))

-----------------------------------------------------------------------------
(* transform_data, schema_enforcement, incremental_loading *)

\* faulty variant: total_order_value adds instead of multiplying
transform_row_add(r) ==
    LET ts == to_datetime(r.order_date)
    IN  [order_id          |-> r.order_id,
         customer_id       |-> r.customer_id,
         product_id        |-> r.product_id,
         order_date        |-> ts,
         quantity          |-> r.quantity,
         price_usd         |-> r.price_usd,
         status            |-> r.status,
         delivery_address  |-> r.delivery_address,
         total_order_value |-> r.quantity + r.price_usd,
         order_month       |-> strftime_Ym(ts)]

\* lines 103-116 on one row; pd.to_numeric leaves a numeric cell (NaN
\* included) as it is
transform_row(r) ==
    LET ts == to_datetime(r.order_date)
    IN  [order_id          |-> r.order_id,
         customer_id       |-> r.customer_id,
         product_id        |-> r.product_id,
         order_date        |-> ts,
         quantity          |-> r.quantity,
         price_usd         |-> r.price_usd,
         status            |-> r.status,
         delivery_address  |-> r.delivery_address,
         total_order_value |-> Mul(r.quantity, r.price_usd),
         order_month       |-> strftime_Ym(ts)]

transform_data(df) ==
    LET t == [i \in 1..Len(df) |-> transform_row(df[i])]
    IN  \* line 120: dropna(subset=['quantity', 'price_usd'])
        BoolIndex(t, [i \in 1..Len(t) |->
                         t[i].quantity # NaN /\ t[i].price_usd # NaN])

\* lines 136-147: the target schema
customer_orders ==
    <<"order_id", "order_date", "order_month", "customer_id", "product_id",
      "quantity", "price_usd", "total_order_value", "status",
      "delivery_address">>

\* line 149: df_transformed[customer_orders]
schema_enforcement(df) ==
    [i \in 1..Len(df) |->
        [c \in {customer_orders[k] : k \in 1..Len(customer_orders)} |-> df[i][c]]]

\* faulty variant: the watermark day itself is kept (>= for >)
incremental_loading_ge(df, last_load_date) ==
    IF last_load_date # <<>>
    THEN BoolIndex(df, [i \in 1..Len(df) |->
                          df[i].order_date >= to_datetime(last_load_date)])
    ELSE df

\* lines 158-165; None and '' are falsy, both are <<>> here; the comparison
\* of the datetime column with the date text parses the text
incremental_loading(df, last_load_date) ==
    IF last_load_date # <<>>
    THEN BoolIndex(df, [i \in 1..Len(df) |->
                          df[i].order_date > to_datetime(last_load_date)])
    ELSE df

-----------------------------------------------------------------------------
(* persistence and exceptions *)

\* faulty variant: a bare "except:" in main, which catches SystemExit too
main_catches_all(e) == TRUE

\* classes that main's "except Exception" (line 249) catches; SystemExit
\* derives from BaseException only
main_catches(e) == e \in {"Exception", "FileNotFoundError"}

\* lines 26-34: the outcome of loading_data; exit() raises SystemExit from
\* inside the FileNotFoundError handler
loading_data(exists, rows) ==
    IF exists
    THEN [df |-> rows, log |-> <<>>, raised |-> "none"]
    ELSE [df |-> <<>>, log |-> <<"ERROR file not found">>,
          raised |-> "SystemExit"]

\* faulty variant: the handler logs the failure and does not re-raise
load_to_database_swallow(df, table, io_fails) ==
    IF io_fails
    THEN [table |-> table, log |-> <<"ERROR Failed to load data to database">>,
          raised |-> "none"]
    ELSE [table |-> df, log |-> <<>>, raised |-> "none"]

\* faulty variant: to_sql(..., if_exists='append')
load_to_database_append(df, table, io_fails) ==
    IF io_fails
    THEN [table |-> table, log |-> <<"ERROR Failed to load data to database">>,
          raised |-> "Exception"]
    ELSE [table |-> table \o df, log |-> <<>>, raised |-> "none"]

\* lines 173-187: to_sql(..., if_exists='replace'); a failure is logged and
\* re-raised
load_to_database(df, table, io_fails) ==
    IF io_fails
    THEN [table |-> table, log |-> <<"ERROR Failed to load data to database">>,
          raised |-> "Exception"]
    ELSE [table |-> df, log |-> <<>>, raised |-> "none"]

\* lines 193-199: to_csv overwrites the file; a failure is logged and re-raised
save_backup_csv(df, old, io_fails) ==
    IF io_fails
    THEN [file |-> old, log |-> <<"ERROR Failed to save CSV">>,
          raised |-> "Exception"]
    ELSE [file |-> df, log |-> <<>>, raised |-> "none"]

\* line 240: to_parquet overwrites the file; no handler of its own
to_parquet(df, old, io_fails) ==
    IF io_fails
    THEN [file |-> old, log |-> <<>>, raised |-> "Exception"]
    ELSE [file |-> df, log |-> <<>>, raised |-> "none"]

\* lines 206-212: a FileNotFoundError of the re-read is logged and swallowed
verify_csv(found) ==
    IF found
    THEN [log |-> <<>>, raised |-> "none"]
    ELSE [log |-> <<"ERROR Could not read">>, raised |-> "none"]

\* An exception e leaves the try block of main (lines 249-251) after the
\* stage logged lg: "except Exception" logs and re-raises what it catches
Raise(e, lg) ==
    /\ exc' = e
    /\ log' = IF main_catches(e)
              THEN log \o lg \o <<"CRITICAL Pipeline failed">>
              ELSE log \o lg
    /\ pc' = IF e = "SystemExit" THEN "exited" ELSE "failed"

-----------------------------------------------------------------------------
(* Inputs *)

RawRow(id, date, q, p, st, addr) ==
    [order_id |-> id, customer_id |-> "C1", product_id |-> "P1",
     order_date |-> date, quantity |-> q, price_usd |-> p, status |-> st,
     delivery_address |-> addr]

\* line 231: the hardcoded watermark '2022-12-01'
LastRun == <<2022, 12, 1>>

\* rows of dataset.csv in the single-run specification: <<quantity, price,
\* address>> is sound, or has a negative quantity, a negative price, a
\* missing quantity or a missing address
InputRows ==
    {RawRow(id, date, c[1], c[2], st, c[3]) :
        id \in {1, 2},
        date \in {LastRun, <<2023, 1, 15>>},
        c \in {<<2, 3, "1 Main St">>, <<-1, 3, "1 Main St">>,
               <<2, -1, "1 Main St">>, <<NaN, 3, "1 Main St">>,
               <<2, 3, NA>>},
        st \in {"completed", "Pending", "refunded"}}

\* dates around the watermark, and one in another month and year
Dates == {<<2022, 11, 30>>, LastRun, <<2022, 12, 2>>, <<2023, 1, 15>>}

IncrRows ==
    {RawRow(id, date, 2, 3, "completed", "1 Main St") :
        id \in {1, 2}, date \in Dates}

RunsRows ==
    {RawRow(id, date, q, 3, "completed", "1 Main St") :
        id \in {1, 2}, date \in {LastRun, <<2023, 1, 15>>}, q \in {2, -1}}

-----------------------------------------------------------------------------
(* The process: main(), lines 216-251 *)

ProcessStart ==
    /\ df_raw = <<>> /\ df_validated = <<>> /\ df_transformed = <<>>
    /\ df_final = <<>> /\ df_incremental = <<>>
    /\ last_run = <<>>
    /\ written = {}
    /\ trace = <<>>
    /\ log = <<>>
    /\ exc = "none"

Init ==
    /\ pc = "start"
    /\ ProcessStart
    /\ file_exists \in BOOLEAN
    /\ file_rows \in Tables(InputRows, MaxRows)
    /\ file_exists = FALSE => file_rows = <<>>
    /\ db = <<>> /\ csv = <<>> /\ parquet = <<>>
    /\ runs = 1
    /\ db_before = <<>>

\* line 223
LoadingData ==
    /\ pc = "start"
    /\ trace' = Append(trace, "loading_data")
    /\ LET r == loading_data(file_exists, file_rows)
       IN  IF r.raised = "none"
           THEN /\ df_raw' = r.df
                /\ pc' = "loaded"
                /\ log' = log \o r.log
                /\ exc' = exc
           ELSE /\ Raise(r.raised, r.log)
                /\ df_raw' = df_raw
    /\ UNCHANGED <<file_exists, file_rows, df_validated, df_transformed,
                   df_final, df_incremental, last_run, db, csv, parquet,
                   written, runs, db_before>>

\* line 225
ValidateData ==
    /\ pc = "loaded"
    /\ trace' = Append(trace, "validate_data")
    /\ df_validated' = validate_data(df_raw)
    /\ pc' = "validated"
    /\ UNCHANGED <<file_exists, file_rows, df_raw, df_transformed, df_final,
                   df_incremental, last_run, db, csv, parquet, written, log,
                   exc, runs, db_before>>

\* line 227
TransformData ==
    /\ pc = "validated"
    /\ trace' = Append(trace, "transform_data")
    /\ df_transformed' = transform_data(df_validated)
    /\ pc' = "transformed"
    /\ UNCHANGED <<file_exists, file_rows, df_raw, df_validated, df_final,
                   df_incremental, last_run, db, csv, parquet, written, log,
                   exc, runs, db_before>>

\* line 229
SchemaEnforcement ==
    /\ pc = "transformed"
    /\ trace' = Append(trace, "schema_enforcement")
    /\ df_final' = schema_enforcement(df_transformed)
    /\ pc' = "schema_enforced"
    /\ UNCHANGED <<file_exists, file_rows, df_raw, df_validated,
                   df_transformed, df_incremental, last_run, db, csv, parquet,
                   written, log, exc, runs, db_before>>

\* lines 231-233
IncrementalLoading ==
    /\ pc = "schema_enforced"
    /\ trace' = Append(trace, "incremental_loading")
    /\ last_run' = LastRun
    /\ df_incremental' = incremental_loading(df_final, last_run')
    /\ pc' = "filtered"
    /\ UNCHANGED <<file_exists, file_rows, df_raw, df_validated,
                   df_transformed, df_final, db, csv, parquet, written, log,
                   exc, runs, db_before>>

\* line 235
LoadToDatabase ==
    /\ pc = "filtered"
    /\ trace' = Append(trace, "load_to_database")
    /\ \E io_fails \in BOOLEAN :
         LET r == load_to_database(df_incremental, db, io_fails)
         IN  /\ db' = r.table
             /\ IF r.raised = "none"
                THEN /\ pc' = "db_written"
                     /\ written' = written \cup {"db"}
                     /\ log' = log \o r.log
                     /\ exc' = exc
                ELSE /\ Raise(r.raised, r.log)
                     /\ written' = written
    /\ UNCHANGED <<file_exists, file_rows, df_raw, df_validated,
                   df_transformed, df_final, df_incremental, last_run, csv,
                   parquet, runs, db_before>>

\* line 237
SaveBackupCsv ==
    /\ pc = "db_written"
    /\ trace' = Append(trace, "save_backup_csv")
    /\ \E io_fails \in BOOLEAN :
         LET r == save_backup_csv(df_incremental, csv, io_fails)
         IN  /\ csv' = r.file
             /\ IF r.raised = "none"
                THEN /\ pc' = "csv_written"
                     /\ written' = written \cup {"csv"}
                     /\ log' = log \o r.log
                     /\ exc' = exc
                ELSE /\ Raise(r.raised, r.log)
                     /\ written' = written
    /\ UNCHANGED <<file_exists, file_rows, df_raw, df_validated,
                   df_transformed, df_final, df_incremental, last_run, db,
                   parquet, runs, db_before>>

\* lines 240-241
SaveParquet ==
    /\ pc = "csv_written"
    /\ trace' = Append(trace, "to_parquet")
    /\ \E io_fails \in BOOLEAN :
         LET r == to_parquet(df_incremental, parquet, io_fails)
         IN  /\ parquet' = r.file
             /\ IF r.raised = "none"
                THEN /\ pc' = "parquet_written"
                     /\ written' = written \cup {"parquet"}
                     /\ log' = log \o r.log
                     /\ exc' = exc
                ELSE /\ Raise(r.raised, r.log)
                     /\ written' = written
    /\ UNCHANGED <<file_exists, file_rows, df_raw, df_validated,
                   df_transformed, df_final, df_incremental, last_run, db,
                   csv, runs, db_before>>

\* line 243
VerifyCsv ==
    /\ pc = "parquet_written"
    /\ trace' = Append(trace, "verify_csv")
    /\ \E found \in BOOLEAN :
         LET r == verify_csv(found)
         IN  /\ log' = log \o r.log
             /\ pc' = "verified"
    /\ UNCHANGED <<file_exists, file_rows, df_raw, df_validated,
                   df_transformed, df_final, df_incremental, last_run, db,
                   csv, parquet, written, exc, runs, db_before>>

\* faulty variant: success is reported right after the CSV write
Complete_early ==
    /\ pc = "csv_written"
    /\ log' = Append(log, "ETL Pipeline Completed Successfully")
    /\ pc' = "done"
    /\ UNCHANGED <<file_exists, file_rows, df_raw, df_validated,
                   df_transformed, df_final, df_incremental, last_run, db,
                   csv, parquet, written, trace, exc, runs, db_before>>

\* lines 245-247
Complete ==
    /\ pc = "verified"
    /\ log' = Append(log, "ETL Pipeline Completed Successfully")
    /\ pc' = "done"
    /\ UNCHANGED <<file_exists, file_rows, df_raw, df_validated,
                   df_transformed, df_final, df_incremental, last_run, db,
                   csv, parquet, written, trace, exc, runs, db_before>>

Next ==
    \/ LoadingData
    \/ ValidateData
    \/ TransformData
    \/ SchemaEnforcement
    \/ IncrementalLoading
    \/ LoadToDatabase
    \/ SaveBackupCsv
    \/ SaveParquet
    \/ VerifyCsv
    \/ Complete

Spec == Init /\ [][Next]_vars

-----------------------------------------------------------------------------
(* Repeated runs: lines 253-255, one process after another over the same   *)
(* sinks; dataset.csv may change or disappear between two runs             *)

InitRuns ==
    /\ pc = "start"
    /\ ProcessStart
    /\ file_exists \in BOOLEAN
    /\ file_rows \in Tables(RunsRows, MaxRowsRuns)
    /\ file_exists = FALSE => file_rows = <<>>
    /\ db = <<>> /\ csv = <<>> /\ parquet = <<>>
    /\ runs = 1
    /\ db_before = <<>>

Restart ==
    /\ pc \in {"done", "failed", "exited"}
    /\ runs < MaxRuns
    /\ runs' = runs + 1
    /\ pc' = "start"
    /\ df_raw' = <<>> /\ df_validated' = <<>> /\ df_transformed' = <<>>
    /\ df_final' = <<>> /\ df_incremental' = <<>>
    /\ last_run' = <<>>
    /\ written' = {}
    /\ trace' = <<>>
    /\ log' = <<>>
    /\ exc' = "none"
    /\ file_exists' \in BOOLEAN
    /\ file_rows' \in Tables(RunsRows, MaxRowsRuns)
    /\ file_exists' = FALSE => file_rows' = <<>>
    /\ db_before' = db
    /\ UNCHANGED <<db, csv, parquet>>

NextRuns == Next \/ Restart

SpecRuns == InitRuns /\ [][NextRuns]_vars

-----------------------------------------------------------------------------
(* incremental_loading on its own: any table, any watermark or none *)

InitIncr ==
    /\ pc = "incr_call"
    /\ file_exists = TRUE
    /\ file_rows \in Tables(IncrRows, MaxRowsIncr)
    /\ df_raw = <<>> /\ df_validated = <<>> /\ df_transformed = <<>>
    /\ df_final = schema_enforcement(transform_data(file_rows))
    /\ df_incremental = <<>>
    /\ last_run \in Dates \cup {<<>>}
    /\ written = {} /\ trace = <<>> /\ log = <<>> /\ exc = "none"
    /\ db = <<>> /\ csv = <<>> /\ parquet = <<>>
    /\ runs = 1
    /\ db_before = <<>>

IncrementalLoadingCall ==
    /\ pc = "incr_call"
    /\ df_incremental' = incremental_loading(df_final, last_run)
    /\ trace' = Append(trace, "incremental_loading")
    /\ pc' = "incr_done"
    /\ UNCHANGED <<file_exists, file_rows, df_raw, df_validated,
                   df_transformed, df_final, last_run, db, csv, parquet,
                   written, log, exc, runs, db_before>>

NextIncr == IncrementalLoadingCall

SpecIncr == InitIncr /\ [][NextIncr]_vars

-----------------------------------------------------------------------------
(* Properties *)

InLog(m) == \E k \in 1..Len(log) : log[k] = m
InTrace(st) == \E k \in 1..Len(trace) : trace[k] = st
IsPrefix(p, q) == Len(p) <= Len(q) /\ \A k \in 1..Len(p) : p[k] = q[k]

UniqueIds(t) ==
    \A i, j \in 1..Len(t) : i # j => t[i].order_id # t[j].order_id

\* C1: the table returned by validate_data has no two rows with the same
\* order_id, and neither has the batch handed to the sinks nor any sink
C1_UniqueOrderIds ==
    /\ UniqueIds(df_validated)
    /\ UniqueIds(df_incremental)
    /\ UniqueIds(db) /\ UniqueIds(csv) /\ UniqueIds(parquet)

\* C1 witness: two sound rows of the input share their order_id and one of
\* them reached all three sinks
C1_Witness ==
    /\ pc = "done"
    /\ Len(df_raw) = 2
    /\ df_raw[1].order_id = df_raw[2].order_id
    /\ df_raw[1].order_date = <<2023, 1, 15>>
    /\ df_raw[2].order_date = <<2023, 1, 15>>
    /\ Len(df_validated) = 1
    /\ Len(db) = 1 /\ Len(csv) = 1 /\ Len(parquet) = 1

NonNegative(t) ==
    \A i \in 1..Len(t) : t[i].quantity >= 0 /\ t[i].price_usd >= 0

\* C2: every row returned by validate_data has quantity >= 0 and
\* price_usd >= 0; no negative row reaches transform_data or a sink
C2_NonNegative ==
    /\ NonNegative(df_validated)
    /\ NonNegative(df_transformed)
    /\ NonNegative(df_incremental)
    /\ NonNegative(db) /\ NonNegative(csv) /\ NonNegative(parquet)

\* C2 witness: the input held a row with a negative quantity and a sound one,
\* validation ran and the sound row was persisted
C2_Witness ==
    /\ pc = "done"
    /\ \E i \in 1..Len(df_raw) :
          df_raw[i].quantity = -1 /\ ~IsNullRow(df_raw[i])
    /\ Len(df_validated) = 1
    /\ Len(parquet) = 1

\* C3: the status of every row returned by validate_data is one of
\* completed, pending, cancelled
C3_StatusInEnum ==
    pc # "start" /\ pc # "loaded" =>
        \A i \in 1..Len(df_validated) : df_validated[i].status \in valid_status

\* the text "YYYY-MM-DD" a is a later calendar day than b
CivilAfter(a, b) ==
    \/ a[1] > b[1]
    \/ a[1] = b[1] /\ a[2] > b[2]
    \/ a[1] = b[1] /\ a[2] = b[2] /\ a[3] > b[3]

\* C4: with a cutoff, incremental_loading returns exactly the rows dated
\* strictly after it, in their order and unaltered; with no cutoff it
\* returns its input.  Row i of df_final comes from row i of file_rows, whose
\* order_date is still the calendar text.
C4_IncrementalExact ==
    pc = "incr_done" =>
        IF last_run # <<>>
        THEN LET K == {i \in 1..Len(file_rows) :
                          CivilAfter(file_rows[i].order_date, last_run)}
             IN  /\ Len(df_incremental) = Cardinality(K)
                 /\ \A i \in K :
                      df_incremental[Cardinality({j \in K : j <= i})] = df_final[i]
        ELSE df_incremental = df_final

\* C4 witness: a row dated on the cutoff was dropped and a later one kept
C4_Witness ==
    /\ pc = "incr_done"
    /\ last_run = LastRun
    /\ Len(df_final) = 2
    /\ file_rows[1].order_date = LastRun
    /\ file_rows[2].order_date = <<2022, 12, 2>>
    /\ df_incremental = <<df_final[2]>>

\* C5: when dataset.csv is missing the error is logged and the process
\* exits at once: no later stage runs, no sink is written, and main's
\* "Pipeline failed" handler does not see the exit
C5_MissingFileExits ==
    ~file_exists /\ pc # "start" =>
        /\ pc = "exited"
        /\ exc = "SystemExit"
        /\ trace = <<"loading_data">>
        /\ log = <<"ERROR file not found">>
        /\ written = {}
        /\ df_raw = <<>> /\ df_validated = <<>> /\ df_transformed = <<>>
        /\ df_final = <<>> /\ df_incremental = <<>>

\* C5 witness: a run without dataset.csv exited while the sinks still hold
\* what an earlier run wrote
C5_Witness ==
    /\ ~file_exists
    /\ pc = "exited"
    /\ runs = 2
    /\ Len(db) = 1 /\ Len(csv) = 1 /\ Len(parquet) = 1

\* C6: a failure of load_to_database or save_backup_csv is logged and
\* re-raised and ends the run: no later sink is written, verify_csv does
\* not run and success is never reported
C6_PersistenceFailureTerminates ==
    /\ InLog("ERROR Failed to load data to database") =>
          /\ pc = "failed"
          /\ exc = "Exception"
          /\ log = <<"ERROR Failed to load data to database",
                     "CRITICAL Pipeline failed">>
          /\ trace[Len(trace)] = "load_to_database"
          /\ written = {}
    /\ InLog("ERROR Failed to save CSV") =>
          /\ pc = "failed"
          /\ exc = "Exception"
          /\ log = <<"ERROR Failed to save CSV", "CRITICAL Pipeline failed">>
          /\ trace[Len(trace)] = "save_backup_csv"
          /\ written = {"db"}
    /\ pc = "failed" =>
          /\ ~InTrace("verify_csv")
          /\ ~InLog("ETL Pipeline Completed Successfully")

\* C6 witness: the CSV write failed after the database write succeeded
C6_Witness ==
    /\ pc = "failed"
    /\ InLog("ERROR Failed to save CSV")
    /\ written = {"db"}
    /\ Len(db) = 1
    /\ csv = <<>>

\* the calls of main, lines 223-243, in program order
StageOrder ==
    <<"loading_data", "validate_data", "transform_data", "schema_enforcement",
      "incremental_loading", "load_to_database", "save_backup_csv",
      "to_parquet", "verify_csv">>

\* C7: the stages are called in program order, each after the previous one
\* returned, the sinks are written in the order SQLite, CSV, Parquet, and
\* success is reported only after all three writes succeeded
C7_StageOrder ==
    /\ IsPrefix(trace, StageOrder)
    /\ exc # "none" => pc \in {"failed", "exited"}
    /\ "csv" \in written => "db" \in written /\ InTrace("save_backup_csv")
    /\ "parquet" \in written => "csv" \in written /\ InTrace("to_parquet")
    /\ "db" \in written => InTrace("load_to_database")
    /\ InTrace("verify_csv") => written = {"db", "csv", "parquet"}
    /\ InLog("ETL Pipeline Completed Successfully") =>
          /\ written = {"db", "csv", "parquet"}
          /\ trace = StageOrder
          /\ exc = "none"

\* C7 witness: a run that reported success with a row in every sink
C7_Witness ==
    /\ pc = "done"
    /\ InLog("ETL Pipeline Completed Successfully")
    /\ Len(df_raw) = 2
    /\ Len(db) = 2 /\ Len(csv) = 2 /\ Len(parquet) = 2

\* C8: every row returned by transform_data has total_order_value =
\* quantity * price_usd and order_month = the year and month of its order
\* date (read off the calendar text of the validated row); every other
\* column keeps its value; the persisted rows are rows of df_transformed
C8_DerivedColumns ==
    pc \notin {"start", "loaded", "validated"} =>
        /\ Len(df_transformed) = Len(df_validated)
        /\ \A i \in 1..Len(df_transformed) :
             LET r == df_transformed[i]
                 v == df_validated[i]
             IN  /\ r.total_order_value = r.quantity * r.price_usd
                 /\ r.order_month = <<v.order_date[1], v.order_date[2]>>
                 /\ r.quantity = v.quantity /\ r.price_usd = v.price_usd
                 /\ r.order_id = v.order_id /\ r.customer_id = v.customer_id
                 /\ r.product_id = v.product_id /\ r.status = v.status
                 /\ r.delivery_address = v.delivery_address
        /\ Rows(db) \cup Rows(csv) \cup Rows(parquet) \subseteq Rows(df_transformed)

\* C8 witness: a January 2023 order of 2 items at 3 USD was persisted with
\* its derived columns
C8_Witness ==
    /\ pc = "done"
    /\ \E i \in 1..Len(db) :
          /\ db[i].order_month = <<2023, 1>>
          /\ db[i].quantity = 2 /\ db[i].price_usd = 3
          /\ db[i].total_order_value = 6

\* the five checks of validate_data by name
Checks == {"missing", "duplicates", "quantity", "price", "status"}

ApplyCheck(c, t) ==
    CASE c = "missing"    -> check_missing(t)
      [] c = "duplicates" -> check_duplicates(t)
      [] c = "quantity"   -> check_negative_quantity(t)
      [] c = "price"      -> check_negative_price(t)
      [] c = "status"     -> check_status(t)

\* the checks applied in the order order[1], order[2], ...
ApplyInOrder(order, t) ==
    LET F[k \in 0..Len(order)] ==
            IF k = 0 THEN t ELSE ApplyCheck(order[k], F[k - 1])
    IN  F[Len(order)]

CheckOrders ==
    {o \in [1..Cardinality(Checks) -> Checks] :
        \A a, b \in 1..Cardinality(Checks) : a # b => o[a] # o[b]}

\* a row that passes every row-level check
RowPasses(r) ==
    /\ ~IsNullRow(r)
    /\ Ge0(r.quantity) /\ Ge0(r.price_usd)
    /\ ~invalid_status(r)

\* C9: the checks of validate_data are independent filters: every order of
\* applying them leaves the same set of rows as the order of the code, so an
\* order_id with a row that passes every row-level check is never lost
C9_OrderIndependent ==
    pc = "validated" =>
        /\ \A o \in CheckOrders :
              Rows(ApplyInOrder(o, df_raw)) = Rows(df_validated)
        /\ \A i \in 1..Len(df_raw) :
              RowPasses(df_raw[i]) =>
                 \E j \in 1..Len(df_validated) :
                    df_validated[j].order_id = df_raw[i].order_id

\* C10: after a successful run the SQLite table, the CSV backup and the
\* Parquet backup each hold exactly the incrementally filtered batch of that
\* run, whatever earlier runs left in them
C10_SinksHoldLatestBatch ==
    pc = "done" =>
        /\ db = df_incremental
        /\ csv = df_incremental
        /\ parquet = df_incremental
        /\ df_incremental =
              incremental_loading(
                 schema_enforcement(transform_data(validate_data(file_rows))),
                 LastRun)

\* C10 witness: a second successful run whose batch is empty, so whatever
\* the first run persisted is gone from the sinks
C10_Witness ==
    /\ pc = "done"
    /\ runs = 2
    /\ Len(db_before) = 1
    /\ Len(file_rows) = 1
    /\ file_rows[1].order_date = LastRun
    /\ db = <<>> /\ csv = <<>> /\ parquet = <<>>

====
